---- MODULE Spec2Model ----
(***************************************************************************)
(* Model of crates/embeddings-server/src/main.rs: an axum server with two  *)
(* routes, GET / (root) and POST /v1/embeddings (embeddings_create).       *)
(*                                                                         *)
(* Spec      the serving process: main binds the listener, connections     *)
(*           are accepted and each request is dispatched by the router.    *)
(* SpecNorm  the block that computes final_embedding (lines 45-85),        *)
(*           applied to raw vectors of many lengths and contents.          *)
(*                                                                         *)
(* f32 values are modelled as fixed-point integers in units of 1/FixedOne, *)
(* with products, square roots and quotients rounded to nearest.           *)
(***************************************************************************)
EXTENDS Integers, Sequences, FiniteSets, Bags, TLC

\* ------------------------------------------------------------- bounds
MaxConns == 2       \* connections served at the same time
MaxBatch == 2       \* longest `input` list of a request
MaxShort == 1       \* raw vectors of length 0..MaxShort
MaxOver == 1        \* raw vectors up to target_dimension + MaxOver long
MaxVal == 1         \* raw components in -MaxVal..MaxVal
MaxPeriod == 2      \* period of the modelled random stream
DrawSteps == 2      \* gen_range draws are multiples of 1/DrawSteps
FixedOne == 1024    \* the fixed-point representation of 1.0
NormTolPct == 3     \* tolerance, in percent, on the squared norm

\* ------------------------------------------------------------- program constants
random_dimension == 768
target_dimension == 768

Models == {"nomic-text-embed", "no-such-model"}
Texts == {"The food was delicious and the waiter..."}

\* ------------------------------------------------------------- JSON values
Absent == [t |-> "absent", s |-> "", items |-> <<>>]
JNum == [t |-> "num", s |-> "", items |-> <<>>]
JStr(s) == [t |-> "str", s |-> s, items |-> <<>>]
JArr(items) == [t |-> "arr", s |-> "", items |-> items]

Inputs == UNION {[1..n -> Texts] : n \in 0..MaxBatch}

EmptyBody == [syntax_ok |-> TRUE, model |-> Absent, input |-> Absent]
ValidBodies ==
    {[syntax_ok |-> TRUE, model |-> JStr(m), input |-> JArr(inp)] :
        m \in Models, inp \in Inputs}
MalformedBodies ==
    { [syntax_ok |-> FALSE, model |-> Absent, input |-> Absent],
      [syntax_ok |-> TRUE, model |-> JNum, input |-> JArr(<<>>)],
      [syntax_ok |-> TRUE, model |-> JStr("nomic-text-embed"), input |-> Absent],
      [syntax_ok |-> TRUE, model |-> JStr("nomic-text-embed"), input |-> JStr("text")] }

GetRoot == [method |-> "GET", path |-> "/", body |-> EmptyBody]
PostEmbeddings(b) == [method |-> "POST", path |-> "/v1/embeddings", body |-> b]
NoRequest == [method |-> "", path |-> "", body |-> EmptyBody]
Requests == {GetRoot} \cup {PostEmbeddings(b) : b \in ValidBodies \cup MalformedBodies}

\* ------------------------------------------------------------- responses
NoUsage == [prompt_tokens |-> 0, total_tokens |-> 0]
NoJson == [object |-> "", data |-> <<>>, model |-> "", usage |-> NoUsage]
\* status 0: the connection is dropped without a response
NoResponse == [status |-> 0, text |-> "", json |-> NoJson]
TextResponse(status, text) == [status |-> status, text |-> text, json |-> NoJson]
JsonResponse(status, json) == [status |-> status, text |-> "", json |-> json]

Outcome(resp, panic, init_result, embed_result) ==
    [resp |-> resp, panic |-> panic,
     init_result |-> init_result, embed_result |-> embed_result]
NotHandled(resp) == Outcome(resp, "", "not_called", "not_called")

\* ------------------------------------------------------------- fixed-point f32
Abs(x) == IF x < 0 THEN -x ELSE x

DivRound(a, b) ==
    IF a >= 0 THEN (2 * a + b) \div (2 * b) ELSE -((2 * (-a) + b) \div (2 * b))

RECURSIVE SqrtFloor(_, _, _)
SqrtFloor(n, lo, hi) ==
    IF lo >= hi THEN lo
    ELSE LET mid == (lo + hi + 1) \div 2
         IN IF mid * mid <= n THEN SqrtFloor(n, mid, hi) ELSE SqrtFloor(n, lo, mid - 1)

Sqrt(n) ==
    LET r == SqrtFloor(n, 0, 46340)
    IN IF n - r * r > r THEN r + 1 ELSE r

\* the sum of v[i] * v[i] over lo..hi, by halves to keep the evaluation shallow
RECURSIVE SumSq(_, _, _)
SumSq(v, lo, hi) ==
    IF lo > hi THEN 0
    ELSE IF lo = hi THEN v[lo] * v[lo]
    ELSE LET mid == (lo + hi) \div 2
         IN SumSq(v, lo, mid) + SumSq(v, mid + 1, hi)

\* ------------------------------------------------------------- the random source
DrawValues == {k * (FixedOne \div DrawSteps) : k \in (-DrawSteps)..(DrawSteps - 1)}
Streams ==
    {s \in UNION {[1..n -> DrawValues] : n \in 1..MaxPeriod} :
        \E i \in 1..Len(s) : s[i] # 0}
ConstantStreams == {s \in Streams : Len(s) = 1}
NoStream == <<FixedOne \div DrawSteps>>

gen_range(stream, pos) == stream[((pos - 1) % Len(stream)) + 1]

\* a draw that is kept even when it is zero
SampleOnce(stream, pos) == [val |-> gen_range(stream, pos), next |-> pos + 1]

RECURSIVE SampleNonZero(_, _)
SampleNonZero(stream, pos) ==
    LET val == gen_range(stream, pos)
    IN IF val = 0 THEN SampleNonZero(stream, pos + 1)
       ELSE [val |-> val, next |-> pos + 1]

\* k pushes of non-zero draws, reading the stream from pos on; the second half
\* of the loop continues where the first half stopped
RECURSIVE RandomFill(_, _, _)
RandomFill(stream, pos, k) ==
    IF k = 0 THEN [acc |-> <<>>, next |-> pos]
    ELSE IF k = 1
    THEN LET d == SampleNonZero(stream, pos)
         IN [acc |-> <<d.val>>, next |-> d.next]
    ELSE LET a == RandomFill(stream, pos, k \div 2)
             b == RandomFill(stream, a.next, k - (k \div 2))
         IN [acc |-> a.acc \o b.acc, next |-> b.next]

L2Norm(v) == Sqrt(SumSq(v, 1, Len(v)))

L2Normalize(v) ==
    LET norm == L2Norm(v)
    IN [i \in 1..Len(v) |-> DivRound(v[i] * FixedOne, norm)]

GenerateRandom(stream) ==
    L2Normalize(RandomFill(stream, 1, random_dimension).acc)

\* GenerateRandom of every stream, evaluated once
RandomTable == {<<s, GenerateRandom(s)>> : s \in Streams}

RandomEmbedding(stream) == (CHOOSE p \in RandomTable : p[1] = stream)[2]

\* ------------------------------------------------------------- final_embedding
all_zeros(v) == \A i \in 1..Len(v) : v[i] = 0

\* padding put in front of the components
PaddedInFront(v) ==
    IF Len(v) < target_dimension
    THEN [i \in 1..(target_dimension - Len(v)) |-> 0] \o v
    ELSE v

PaddedEmbedding(v) ==
    IF Len(v) < target_dimension
    THEN v \o [i \in 1..(target_dimension - Len(v)) |-> 0]
    ELSE v

FinalEmbedding(raw, stream) ==
    IF all_zeros(raw) THEN RandomEmbedding(stream) ELSE PaddedEmbedding(raw)

\* ------------------------------------------------------------- the provider
RawVec(d, h, f) == [i \in 1..d |-> IF i = 1 THEN h ELSE f]
Dims == (0..MaxShort) \cup ((target_dimension - 1)..(target_dimension + MaxOver))
RawValues == (-MaxVal)..MaxVal
RawVectors == {RawVec(d, h, f) : d \in Dims, h \in RawValues, f \in RawValues}

\* what the model served by the process returns per input
ModelOutputs == {RawVec(target_dimension, h, h) : h \in {0, 1}}

EmbedOk(vecs) == [ok |-> TRUE, vecs |-> vecs]
EmbedErr == [ok |-> FALSE, vecs |-> <<>>]
\* embed fails, or returns one vector per input, the same vector for the same text
EmbedResults(input, raws) ==
    {EmbedErr} \cup {EmbedOk([i \in 1..Len(input) |-> f[input[i]]]) : f \in [Texts -> raws]}

\* ------------------------------------------------------------- handlers
rootLowercase == "Hello, world!"

root == "Hello, World!"

\* an extractor that checks the syntax only
JsonExtractUnchecked(body) ==
    IF ~body.syntax_ok
    THEN [ok |-> FALSE, status |-> 400, payload |-> [model |-> "", input |-> <<>>]]
    ELSE [ok |-> TRUE, status |-> 200,
          payload |-> [model |-> body.model.s, input |-> body.input.items]]

JsonExtract(body) ==
    IF ~body.syntax_ok
    THEN [ok |-> FALSE, status |-> 400, payload |-> [model |-> "", input |-> <<>>]]
    ELSE IF body.model.t # "str" \/ body.input.t # "arr"
    THEN [ok |-> FALSE, status |-> 422, payload |-> [model |-> "", input |-> <<>>]]
    ELSE [ok |-> TRUE, status |-> 200,
          payload |-> [model |-> body.model.s, input |-> body.input.items]]

\* an envelope that names the served model instead of the requested one
EmbeddingsResponseServedModel(final_embedding, model) ==
    [object |-> "list",
     data |-> << [object |-> "embedding", index |-> 0, embedding |-> final_embedding] >>,
     model |-> "nomic-text-embed",
     usage |-> [prompt_tokens |-> 0, total_tokens |-> 0]]

EmbeddingsResponse(final_embedding, model) ==
    [object |-> "list",
     data |-> << [object |-> "embedding", index |-> 0, embedding |-> final_embedding] >>,
     model |-> model,
     usage |-> [prompt_tokens |-> 0, total_tokens |-> 0]]

embeddings_create(payload, init_ok, embed, stream) ==
    IF ~init_ok
    THEN Outcome(NoResponse, "Failed to initialize model", "err", "not_called")
    ELSE IF ~embed.ok
    THEN Outcome(NoResponse, "failed to embed document", "ok", "err")
    ELSE IF Len(embed.vecs) = 0
    THEN Outcome(NoResponse, "index out of bounds", "ok", "ok")
    ELSE Outcome(
            JsonResponse(200,
                EmbeddingsResponse(FinalEmbedding(embed.vecs[1], stream), payload.model)),
            "", "ok", "ok")

Route(req) ==
    IF req.path = "/" /\ req.method = "GET" THEN "root"
    ELSE IF req.path = "/v1/embeddings" /\ req.method = "POST" THEN "embeddings_create"
    ELSE "fallback"

\* ------------------------------------------------------------- state
VARIABLES
    proc,      \* main: "starting", "serving" or "exited"
    inflight,  \* the bag of requests accepted and not yet answered
    last,      \* the exchange completed most recently
    panicked,  \* a handler has panicked since the process started
    step,      \* SpecNorm: "raw", "final" or "again"
    raw,       \* SpecNorm: embeddings[0]
    final,     \* SpecNorm: final_embedding
    again      \* SpecNorm: final_embedding computed from `final`

vars == <<proc, inflight, last, panicked, step, raw, final, again>>
server == <<proc, inflight, last, panicked>>
norm == <<step, raw, final, again>>

Exchange(req, out) == [req |-> req, out |-> out]
NoExchange == Exchange(NoRequest, NotHandled(NoResponse))

Init ==
    /\ proc = "starting"
    /\ inflight = EmptyBag
    /\ last = NoExchange
    /\ panicked = FALSE
    /\ step = "raw"
    /\ raw = <<>>
    /\ final = <<>>
    /\ again = <<>>

\* main, lines 139-141: bind the listener and serve; a failed bind unwraps an
\* error and ends the process
Bind ==
    /\ proc = "starting"
    /\ proc' = "serving"
    /\ UNCHANGED <<inflight, last, panicked, norm>>

BindFail ==
    /\ proc = "starting"
    /\ proc' = "exited"
    /\ UNCHANGED <<inflight, last, panicked, norm>>

Accept(req) ==
    /\ proc = "serving"
    /\ BagCardinality(inflight) < MaxConns
    /\ inflight' = inflight (+) SetToBag({req})
    /\ UNCHANGED <<proc, last, panicked, norm>>

\* the response is written, or the connection dropped when the handler
\* panicked: the task of that connection unwinds and the process goes on
Complete(req, out) ==
    /\ last' = Exchange(req, out)
    /\ inflight' = inflight (-) SetToBag({req})
    /\ panicked' = (panicked \/ out.panic # "")
    /\ UNCHANGED <<proc, norm>>

ServeRoot(req) ==
    /\ proc = "serving"
    /\ BagIn(req, inflight)
    /\ Route(req) = "root"
    /\ Complete(req, NotHandled(TextResponse(200, root)))

\* embed is reached only once the model is there (line 28), the random source
\* only for an all-zero first vector (line 53)
EmbedsAfter(init_ok, input, raws) ==
    IF init_ok THEN EmbedResults(input, raws) ELSE {EmbedErr}
StreamsAfter(embed, streams) ==
    IF embed.ok /\ Len(embed.vecs) > 0 /\ all_zeros(embed.vecs[1]) THEN streams ELSE {NoStream}

ServeEmbeddings(req) ==
    /\ proc = "serving"
    /\ BagIn(req, inflight)
    /\ Route(req) = "embeddings_create"
    /\ LET ex == JsonExtract(req.body)
       IN IF ~ex.ok
          THEN Complete(req, NotHandled(TextResponse(ex.status, "rejected")))
          ELSE \E init_ok \in BOOLEAN :
               \E embed \in EmbedsAfter(init_ok, ex.payload.input, ModelOutputs) :
               \E stream \in StreamsAfter(embed, ConstantStreams) :
                   Complete(req, embeddings_create(ex.payload, init_ok, embed, stream))

Next ==
    \/ Bind
    \/ BindFail
    \/ \E req \in Requests : Accept(req)
    \/ \E req \in Requests : ServeRoot(req)
    \/ \E req \in Requests : ServeEmbeddings(req)

Spec == Init /\ [][Next]_vars

\* ------------------------------------------------------------- SpecNorm
InitNorm ==
    /\ proc = "serving"
    /\ inflight = EmptyBag
    /\ last = NoExchange
    /\ panicked = FALSE
    /\ step = "raw"
    /\ raw \in RawVectors
    /\ final = <<>>
    /\ again = <<>>

StreamsFor(v) == StreamsAfter(EmbedOk(<<v>>), Streams)

ProbePayload ==
    [model |-> "nomic-text-embed", input |-> <<"The food was delicious and the waiter...">>]

\* the `embedding` of the 200 response when the provider returns v for the first input
ResponseEmbedding(v, stream) ==
    embeddings_create(ProbePayload, TRUE, EmbedOk(<<v>>), stream).resp.json.data[1].embedding

Normalize ==
    /\ step = "raw"
    /\ \E stream \in StreamsFor(raw) : final' = ResponseEmbedding(raw, stream)
    /\ step' = "final"
    /\ UNCHANGED <<server, raw, again>>

Renormalize ==
    /\ step = "final"
    /\ \E stream \in StreamsFor(final) : again' = ResponseEmbedding(final, stream)
    /\ step' = "again"
    /\ UNCHANGED <<server, raw, final>>

NextNorm == Normalize \/ Renormalize

SpecNorm == InitNorm /\ [][NextNorm]_vars

\* ------------------------------------------------------------- properties
LastIsEmbeddings == Route(last.req) = "embeddings_create"
LastStatus == last.out.resp.status
LastJson == last.out.resp.json
LastInput == last.req.body.input.items
LastBodyValid == last.req.body \in ValidBodies

\* C1: a 200 response of POST /v1/embeddings has one data entry per input
\* string, and entry i carries index i (counting from 0).
C1_OneEntryPerInput ==
    (LastIsEmbeddings /\ LastStatus = 200) =>
        /\ Len(LastJson.data) = Len(LastInput)
        /\ \A i \in 1..Len(LastJson.data) : LastJson.data[i].index = i - 1

\* C2: whatever raw vector the provider returns for the first
\* input, the embedding of the 200 response has exactly 768 components.
C2_LengthAlwaysTarget ==
    step # "raw" => Len(final) = 768

\* C3: a raw vector that is not all-zero and at most 768 long comes out with
\* its components first, exactly and in order, followed by zeros up to 768;
\* one of length 768 comes out unchanged, and normalizing an output again
\* returns it unchanged.
C3_PrefixKeptZerosAppended ==
    /\ (step # "raw" /\ ~all_zeros(raw) /\ Len(raw) <= 768) =>
          /\ Len(final) = 768
          /\ \A i \in 1..Len(raw) : final[i] = raw[i]
          /\ \A i \in (Len(raw) + 1)..768 : final[i] = 0
          /\ (Len(raw) = 768 => final = raw)
    /\ step = "again" => again = final

C3_Witness ==
    /\ step = "again"
    /\ ~all_zeros(raw)
    /\ Len(raw) = 767
    /\ raw[1] = 0
    /\ final[767] # 0
    /\ final[768] = 0

\* C4: an all-zero raw vector is replaced by a vector of 768 components, none
\* of them zero, whose Euclidean norm is 1 within the tolerance (the squared
\* norm is within NormTolPct percent of 1).
C4_DegenerateReplacedByUnitVector ==
    (step # "raw" /\ all_zeros(raw)) =>
        /\ Len(final) = 768
        /\ \A i \in 1..Len(final) : final[i] # 0
        /\ 100 * Abs(SumSq(final, 1, Len(final)) - FixedOne * FixedOne)
              <= NormTolPct * FixedOne * FixedOne

C4_Witness ==
    /\ step = "final"
    /\ all_zeros(raw)
    /\ Len(raw) = 768
    /\ \E i \in 1..Len(final) : \E j \in 1..Len(final) : final[i] # final[j]

\* C5: a request with an empty `input` list never reaches the provider's
\* embed operation and never gets a 200 response.
C5_EmptyInputNeverReachesProvider ==
    (LastIsEmbeddings /\ LastBodyValid /\ Len(LastInput) = 0) =>
        /\ last.out.embed_result = "not_called"
        /\ LastStatus # 200

\* C6: when the provider fails on a well-formed batch the request ends with a
\* 5xx response carrying an error envelope, and the process keeps serving.
C6_InferenceFailureIs5xx ==
    (LastIsEmbeddings /\ LastBodyValid /\ Len(LastInput) >= 1
        /\ last.out.embed_result = "err") =>
        /\ LastStatus \in 500..599
        /\ LastJson.object = "error"
        /\ proc = "serving"

\* C7: a failure to initialise the model never happens while a request is
\* handled: requests are only accepted once the model has been initialised.
C7_InitFailureOnlyAtStartup ==
    last.out.init_result # "err"

\* C8: a POST /v1/embeddings whose body is not valid JSON or does not decode
\* gets a 4xx response, and the provider is neither initialised nor invoked.
C8_MalformedBodyRejected ==
    (LastIsEmbeddings /\ last.req.body \in MalformedBodies) =>
        /\ LastStatus \in 400..499
        /\ last.out.init_result = "not_called"
        /\ last.out.embed_result = "not_called"
        /\ last.out.panic = ""

C8_Witness ==
    /\ LastIsEmbeddings
    /\ last.req.body.syntax_ok
    /\ last.req.body.input.t = "str"
    /\ LastStatus = 422

\* C9: every 200 response of POST /v1/embeddings has object "list", data
\* entries of object "embedding", the request's model verbatim and a usage of
\* zero prompt and total tokens.
C9_EnvelopeEchoesModel ==
    (LastIsEmbeddings /\ LastStatus = 200) =>
        /\ LastJson.object = "list"
        /\ \A i \in 1..Len(LastJson.data) : LastJson.data[i].object = "embedding"
        /\ LastJson.model = last.req.body.model.s
        /\ LastJson.usage = [prompt_tokens |-> 0, total_tokens |-> 0]

C9_Witness ==
    /\ LastIsEmbeddings
    /\ LastStatus = 200
    /\ last.req.body.model.s = "no-such-model"
    /\ Len(LastJson.data) > 0

\* C10: GET / is answered with status 200 and the body "Hello, World!", also
\* after handlers have panicked and while other requests are in flight.
C10_RootAlwaysHello ==
    Route(last.req) = "root" =>
        /\ LastStatus = 200
        /\ last.out.resp.text = "Hello, World!"

C10_Witness ==
    /\ Route(last.req) = "root"
    /\ panicked
    /\ \E req \in Requests : BagIn(req, inflight) /\ Route(req) = "embeddings_create"

====
